---- MODULE Spec2Model ----
(***************************************************************************)
(* The campaign workflow scheduler of services/workflow_service.py:        *)
(* WorkflowService with its APScheduler BackgroundScheduler (date          *)
(* triggers, thread pool executor), the campaign registry and the email    *)
(* log reached through MongoDBClient.get_collection, and the dispatch      *)
(* callback _send_campaign_emails.                                         *)
(*                                                                         *)
(* Strings that the code concatenates or tests with startswith are         *)
(* sequences of tokens, "_" being the separator token, so that             *)
(* f"{campaign_name}_{stage}" and job.id.startswith(f"{campaign_name}_")   *)
(* are computed, not assumed.  Optional values are sequences of length     *)
(* at most one: <<>> is None, <<t>> is the value t.  Time is counted in    *)
(* seconds.                                                                *)
(***************************************************************************)
EXTENDS Integers, Sequences, FiniteSets, TLC

VARIABLES now, mongodb_client, jobstore, persisted, jobs, adds, queue,
          missed, dispatched, campaigns, email_logs, last, snap, pool

vars == <<now, mongodb_client, jobstore, persisted, jobs, adds, queue,
          missed, dispatched, campaigns, email_logs, last, snap, pool>>

(***************************************************************************)
(* Bounds of the model.                                                    *)
(***************************************************************************)
MaxTime == 2
MaxCalls == 2
MaxBurst == 22

(***************************************************************************)
(* Constants of the program.                                               *)
(***************************************************************************)
MaxInstances == 3
MisfireGraceTime == 1
ContactLimit == 100
max_workers == 20

None == <<>>
Some(v) == <<v>>

(***************************************************************************)
(* Names, stages and job ids.                                              *)
(***************************************************************************)
Stages == {"invite", "reminder", "thank_you", "follow_up"}
StageOrder == <<"invite", "reminder", "thank_you", "follow_up">>
StageTokens(s) ==
    CASE s = "invite" -> <<"invite">>
      [] s = "reminder" -> <<"reminder">>
      [] s = "thank_you" -> <<"thank", "_", "you">>
      [] s = "follow_up" -> <<"follow", "_", "up">>

Launch == <<"Launch">>
LaunchX == <<"Launch", "_", "x">>
CampaignNames == {Launch, LaunchX}

JobId(c, s) == c \o <<"_">> \o StageTokens(s)
JobPrefix(c) == c \o <<"_">>
startswith(id, p) == Len(p) <= Len(id) /\ SubSeq(id, 1, Len(p)) = p

(***************************************************************************)
(* Inputs: the workflow plans and audience segments callers pass.          *)
(***************************************************************************)
Plan(i, r, t, f) ==
    [invite |-> i, reminder |-> r, thank_you |-> t, follow_up |-> f]
NoPlan == Plan(None, None, None, None)
Targets(n) == [total_emails_sent |-> n]
Requests ==
    { [plan |-> Plan(Some(0), Some(2), None, None), targets |-> Targets(4),
       segs |-> <<>>],
      [plan |-> Plan(Some(1), None, Some(2), Some(2)), targets |-> Targets(0),
       segs |-> <<"s1", "s2">>],
      [plan |-> NoPlan, targets |-> Targets(2), segs |-> <<>>] }

FailStages == {"invite", "thank_you"}

ContactsDb ==
    << [email |-> "a@x", tags |-> {"s1"}],
       [email |-> "b@x", tags |-> {"s1", "s2"}],
       [email |-> "c@x", tags |-> {}] >>
Emails == { ContactsDb[i].email : i \in 1..Len(ContactsDb) }
AllOk == [e \in Emails |-> TRUE]

(***************************************************************************)
(* MongoDBClient.get_collection(self): it takes no collection name.  A     *)
(* call with arguments raises TypeError; a call on a client that is None   *)
(* raises AttributeError.                                                  *)
(***************************************************************************)
get_collection(client, args) ==
    IF client = "None" THEN "AttributeError"
    ELSE IF Len(args) # 0 THEN "TypeError"
    ELSE "collection"

Raises(r) == r \in {"AttributeError", "TypeError", "RuntimeError"}

(***************************************************************************)
(* The campaigns collection: replace_one(upsert) and update_one($set).     *)
(***************************************************************************)
replace_one(coll, name, plan, targets) ==
    { d \in coll : d.name # name }
        \cup { [name |-> name, status |-> "scheduled", workflow_plan |-> plan,
                targets |-> targets] }

update_one(coll, name, status) ==
    { IF d.name = name THEN [d EXCEPT !.status = status] ELSE d : d \in coll }

(***************************************************************************)
(* The job store and the scheduler's operations on jobs.                   *)
(***************************************************************************)
(* A date trigger built without run_date fires at the time of the call. *)
NewJob_without_run_date(id, run_date, args, serial) ==
    [id |-> id, run_date |-> now, next_run_time |-> Some(now),
     args |-> args, serial |-> serial]

NewJob(id, run_date, args, serial) ==
    [id |-> id, run_date |-> run_date, next_run_time |-> Some(run_date),
     args |-> args, serial |-> serial]

(* add_job without replace_existing=True: the job of the same id stays. *)
add_job_keep_existing(js, id, run_date, args, serial) ==
    js \cup { NewJob(id, run_date, args, serial) }

add_job(js, id, run_date, args, serial) ==
    { j \in js : j.id # id } \cup { NewJob(id, run_date, args, serial) }

job_pause(j) == [j EXCEPT !.next_run_time = None]

job_resume(j) == [j EXCEPT !.next_run_time = Some(j.run_date)]

DueJobs(js, t) ==
    { j \in js : j.next_run_time # None /\ j.next_run_time[1] <= t }

Instance(j) ==
    [id |-> j.id, serial |-> j.serial, run_time |-> j.run_date, args |-> j.args]

Key(j) == <<j.id, j.serial>>

Instances(id) == Cardinality({ i \in queue : i.id = id })

(***************************************************************************)
(* schedule_campaign: the stage jobs are added in the order of the code;   *)
(* failStage is the stage whose add_job raises ("none": no add_job raises) *)
(***************************************************************************)
Count(f, x) == IF x \in DOMAIN f THEN f[x] ELSE 0

Incr(f, x) ==
    [y \in DOMAIN f \cup {x} |-> IF y = x THEN Count(f, x) + 1 ELSE f[y]]

(* The stage blocks with each add_job in a try/except that only logs. *)
RECURSIVE AddStages_swallow(_, _, _, _, _, _, _)
AddStages_swallow(i, js, c, plan, segs, failStage, ad) ==
    IF i > Len(StageOrder) THEN [jobs |-> js, ok |-> TRUE, adds |-> ad]
    ELSE LET s == StageOrder[i]
             id == JobId(c, s)
         IN IF plan[s] = None \/ s = failStage
            THEN AddStages_swallow(i + 1, js, c, plan, segs, failStage, ad)
            ELSE AddStages_swallow(i + 1,
                           add_job(js, id, plan[s][1], <<c, s, segs>>,
                                   Count(ad, id) + 1),
                           c, plan, segs, failStage, Incr(ad, id))

RECURSIVE AddStages(_, _, _, _, _, _, _)
AddStages(i, js, c, plan, segs, failStage, ad) ==
    IF i > Len(StageOrder) THEN [jobs |-> js, ok |-> TRUE, adds |-> ad]
    ELSE LET s == StageOrder[i]
             id == JobId(c, s)
         IN IF plan[s] = None
            THEN AddStages(i + 1, js, c, plan, segs, failStage, ad)
            ELSE IF s = failStage
            THEN [jobs |-> js, ok |-> FALSE, adds |-> ad]
            ELSE AddStages(i + 1,
                           add_job(js, id, plan[s][1], <<c, s, segs>>,
                                   Count(ad, id) + 1),
                           c, plan, segs, failStage, Incr(ad, id))

SaveCampaign(c, plan, targets) ==
    IF mongodb_client # "None"
    THEN IF Raises(get_collection(mongodb_client, <<"campaigns">>))
         THEN campaigns
         ELSE replace_one(campaigns, c, plan, targets)
    ELSE campaigns

OwnJobs(js, c) == { j \in js : \E s \in Stages : j.id = JobId(c, s) }

(***************************************************************************)
(* History for stating the properties: last is the step just taken (for a  *)
(* call: its arguments, its return value, the stage jobs the campaign had  *)
(* before it, and whether it directly follows pause of the same campaign;  *)
(* for a worker's run: the job instance, whether the callback ran, and     *)
(* the outcomes of content generation and of the transport; base is the    *)
(* length of the email log before the step; resp is what a query          *)
(* returned; store is the job store as a worker's run, or a pause, resume  *)
(* or status call, found it);                                              *)
(* snap is the job store as the latest pause_campaign call found it.       *)
(***************************************************************************)
Call(op, c, plan, ret, fail) ==
    [n |-> last.n + 1, op |-> op, c |-> c, plan |-> plan, ret |-> ret,
     pre |-> { <<j.args[2], j.run_date>> : j \in OwnJobs(jobs, c) },
     fail |-> fail, job |-> None,
     immediate |-> last.op = "pause" /\ last.c = c,
     genOk |-> AllOk, sendOk |-> AllOk,
     base |-> Len(email_logs), resp |-> None,
     store |-> IF op \in {"pause", "resume", "status"} THEN jobs ELSE {}]

Step ==
    [n |-> last.n, op |-> "step", c |-> Launch, plan |-> NoPlan, ret |-> TRUE,
     pre |-> {}, fail |-> "none", job |-> None, immediate |-> FALSE,
     genOk |-> AllOk, sendOk |-> AllOk,
     base |-> Len(email_logs), resp |-> None, store |-> {}]

schedule_campaign(c, plan, targets, segs, failStage) ==
    /\ last.n < MaxCalls
    /\ failStage # "none" => jobstore = "mongodb" /\ plan[failStage] # None
    /\ LET r == AddStages(1, jobs, c, plan, segs, failStage, adds)
       IN /\ campaigns' = SaveCampaign(c, plan, targets)
          /\ jobs' = r.jobs
          /\ adds' = r.adds
          /\ last' = Call("schedule", c, plan, r.ok, failStage)
    /\ snap' = None
    /\ UNCHANGED <<pool, now, mongodb_client, jobstore, persisted, queue, missed,
                   dispatched, email_logs>>

(***************************************************************************)
(* pause_campaign and resume_campaign.                                     *)
(***************************************************************************)
(* pause_campaign with the job loop placed before the registry update. *)
PauseEffect_jobs_first(c) ==
    [campaigns |-> campaigns,
     jobs |-> { IF startswith(j.id, JobPrefix(c)) THEN job_pause(j) ELSE j
                : j \in jobs },
     ret |-> ~Raises(get_collection(mongodb_client, <<"campaigns">>))]

(* pause_campaign with the registry update in a try/except that only    *)
(* logs, as schedule_campaign has it.                                   *)
PauseEffect_unguarded(c) ==
    [campaigns |-> IF Raises(get_collection(mongodb_client, <<"campaigns">>))
                   THEN campaigns ELSE update_one(campaigns, c, "paused"),
     jobs |-> { IF startswith(j.id, JobPrefix(c)) THEN job_pause(j) ELSE j
                : j \in jobs },
     ret |-> TRUE]

(* pause_campaign without the registry update: only the job loop. *)
PauseEffect_jobs_only(c) ==
    [campaigns |-> campaigns,
     jobs |-> { IF startswith(j.id, JobPrefix(c)) THEN job_pause(j) ELSE j
                : j \in jobs },
     ret |-> TRUE]

(* pause_campaign that pauses the invite job and then fails on the next   *)
(* one, which has fired in the meantime.                                  *)
PauseEffect_partial(c) ==
    [campaigns |-> campaigns,
     jobs |-> { IF startswith(j.id, JobPrefix(c)) /\ j.args[2] = "invite"
                THEN job_pause(j) ELSE j : j \in jobs },
     ret |-> FALSE]

PauseEffect(c) ==
    IF Raises(get_collection(mongodb_client, <<"campaigns">>))
    THEN [campaigns |-> campaigns, jobs |-> jobs, ret |-> FALSE]
    ELSE [campaigns |-> update_one(campaigns, c, "paused"),
          jobs |-> { IF startswith(j.id, JobPrefix(c)) THEN job_pause(j) ELSE j
                     : j \in jobs },
          ret |-> TRUE]

pause_campaign(c) ==
    /\ last.n < MaxCalls
    /\ LET r == PauseEffect(c)
       IN /\ campaigns' = r.campaigns
          /\ jobs' = r.jobs
          /\ last' = Call("pause", c, NoPlan, r.ret, "none")
    /\ snap' = Some([c |-> c, jobs |-> jobs, resumed |-> FALSE,
                      campaigns |-> campaigns, at |-> now])
    /\ UNCHANGED <<pool, now, mongodb_client, jobstore, persisted, adds, queue,
                   missed, dispatched, email_logs>>

ResumeEffect(c) ==
    IF Raises(get_collection(mongodb_client, <<"campaigns">>))
    THEN [campaigns |-> campaigns, jobs |-> jobs, ret |-> FALSE]
    ELSE [campaigns |-> update_one(campaigns, c, "active"),
          jobs |-> { IF startswith(j.id, JobPrefix(c)) THEN job_resume(j) ELSE j
                     : j \in jobs },
          ret |-> TRUE]

resume_campaign(c) ==
    /\ last.n < MaxCalls
    /\ LET r == ResumeEffect(c)
       IN /\ campaigns' = r.campaigns
          /\ jobs' = r.jobs
          /\ last' = Call("resume", c, NoPlan, r.ret, "none")
    /\ snap' = IF snap # None /\ snap[1].c = c
                THEN Some([snap[1] EXCEPT !.resumed = TRUE]) ELSE snap
    /\ UNCHANGED <<pool, now, mongodb_client, jobstore, persisted, adds, queue,
                   missed, dispatched, email_logs>>

(***************************************************************************)
(* The contact directory and the transport, as the dispatch uses them.     *)
(***************************************************************************)
get_contacts_by_tag(tag) == SelectSeq(ContactsDb, LAMBDA k : tag \in k.tags)

find_limit(coll, limit) ==
    SubSeq(coll, 1, IF Len(coll) < limit THEN Len(coll) ELSE limit)

get_all_contacts == find_limit(ContactsDb, ContactLimit)

RECURSIVE ContactsOfSegments(_, _)
ContactsOfSegments(segs, i) ==
    IF i > Len(segs) THEN <<>>
    ELSE get_contacts_by_tag(segs[i]) \o ContactsOfSegments(segs, i + 1)

EmailLog(c, stage, email, ok) ==
    [campaign_name |-> c, email |-> email, email_type |-> stage,
     status |-> IF ok THEN "sent" ELSE "failed"]

RECURSIVE send_bulk_emails(_, _, _, _, _)
send_bulk_emails(c, stage, batch, sendOk, i) ==
    IF i > Len(batch) THEN <<>>
    ELSE <<EmailLog(c, stage, batch[i].email, sendOk[batch[i].email])>>
             \o send_bulk_emails(c, stage, batch, sendOk, i + 1)

(***************************************************************************)
(* _send_campaign_emails(campaign_name, email_type, audience_segments):    *)
(* the rows it appends to the email log.  genOk[e]: content generation     *)
(* for contact e succeeds; sendOk[e]: the transport delivers to e.  Every  *)
(* exception ends the call in the handler of line 393.                     *)
(***************************************************************************)
send_campaign_emails(c, stage, segs, genOk, sendOk) ==
    IF Raises(get_collection(mongodb_client, <<"campaigns">>)) THEN <<>>
    ELSE IF ~(\E d \in campaigns : d.name = c) THEN <<>>
    ELSE LET contacts == IF Len(segs) > 0 THEN ContactsOfSegments(segs, 1)
                         ELSE get_all_contacts
             email_batches == SelectSeq(contacts, LAMBDA k : genOk[k.email])
         IN IF Len(contacts) = 0 \/ Len(email_batches) = 0 THEN <<>>
            ELSE IF Raises(get_collection(mongodb_client, <<"email_logs">>))
            THEN <<>>
            ELSE send_bulk_emails(c, stage, email_batches, sendOk, 1)

(* A callback that marks the campaign completed once its stage is sent. *)
DispatchEffect_completes(c, stage, segs, genOk, sendOk) ==
    [campaigns |-> update_one(campaigns, c, "completed"),
     email_logs |-> email_logs
                        \o send_campaign_emails(c, stage, segs, genOk, sendOk)]

DispatchEffect(c, stage, segs, genOk, sendOk) ==
    [campaigns |-> campaigns,
     email_logs |-> email_logs
                        \o send_campaign_emails(c, stage, segs, genOk, sendOk)]

(***************************************************************************)
(* The scheduler: _process_jobs submits every due job to the executor and  *)
(* removes it from the store (a date trigger has no next fire time);       *)
(* run_job, on a pool worker, skips a run that is later than               *)
(* misfire_grace_time and calls the job function otherwise.                *)
(***************************************************************************)
(***************************************************************************)
(* The executor's pool, by counts: of the submitted runs of one pass of    *)
(* _process_jobs (all of run time run_time), waiting are in the pool's     *)
(* work queue, running occupy a worker, finished have returned, dispatched *)
(* had their callback invoked and missed were skipped as too late.         *)
(***************************************************************************)
IdlePool ==
    [submitted |-> 0, run_time |-> 0, waiting |-> 0, running |-> 0,
     finished |-> 0, dispatched |-> 0, missed |-> 0]

(* A pool that starts a thread for every submitted run. *)
FreeWorker_unbounded(running) == TRUE

FreeWorker(running) == running < max_workers

(* misfire_grace_time=None: a run is never too late. *)
Misfired_never(run_time, t) == FALSE

Misfired(run_time, t) == t - run_time > MisfireGraceTime

(* A trigger that keeps its fire time: the job stays in the store. *)
RemoveFired_keep(js, due) == js

RemoveFired(js, due) == js \ due

process_jobs ==
    LET due == DueJobs(jobs, now)
        accepted == { j \in due : Instances(j.id) < MaxInstances }
    IN /\ due # {}
       /\ jobs' = RemoveFired(jobs, due)
       /\ queue' = queue \cup { Instance(j) : j \in accepted }
       /\ missed' = missed \cup
              { [job |-> Key(j), why |-> "max_instances"] : j \in due \ accepted }
       /\ last' = Step
       /\ UNCHANGED snap
       /\ UNCHANGED <<pool, now, mongodb_client, jobstore, persisted, adds,
                      dispatched, campaigns, email_logs>>

(* A callback whose handler cancels the campaign's remaining jobs when the *)
(* dispatch fails.                                                         *)
run_job_cancels(i, genOk, sendOk) ==
    /\ i \in queue
    /\ queue' = queue \ {i}
    /\ IF Misfired(i.run_time, now)
       THEN /\ missed' = missed \cup { [job |-> Key(i), why |-> "misfire"] }
            /\ UNCHANGED <<jobs, dispatched, campaigns, email_logs>>
       ELSE /\ dispatched' = Incr(dispatched, Key(i))
            /\ LET r == DispatchEffect(i.args[1], i.args[2], i.args[3],
                                       genOk, sendOk)
               IN /\ campaigns' = r.campaigns
                  /\ email_logs' = r.email_logs
                  /\ jobs' = IF r.email_logs = email_logs
                             THEN jobs \ OwnJobs(jobs, i.args[1]) ELSE jobs
            /\ UNCHANGED missed
    /\ last' = [Step EXCEPT !.op = "run", !.c = i.args[1], !.job = Some(i),
                            !.ret = ~Misfired(i.run_time, now),
                            !.genOk = genOk, !.sendOk = sendOk,
                            !.store = jobs]
    /\ UNCHANGED snap
    /\ UNCHANGED <<pool, now, mongodb_client, jobstore, persisted, adds>>

run_job(i, genOk, sendOk) ==
    /\ i \in queue
    /\ queue' = queue \ {i}
    /\ IF Misfired(i.run_time, now)
       THEN /\ missed' = missed \cup { [job |-> Key(i), why |-> "misfire"] }
            /\ UNCHANGED <<dispatched, campaigns, email_logs>>
       ELSE /\ dispatched' = Incr(dispatched, Key(i))
            /\ LET r == DispatchEffect(i.args[1], i.args[2], i.args[3],
                                       genOk, sendOk)
               IN /\ campaigns' = r.campaigns
                  /\ email_logs' = r.email_logs
            /\ UNCHANGED missed
    /\ last' = [Step EXCEPT !.op = "run", !.c = i.args[1], !.job = Some(i),
                            !.ret = ~Misfired(i.run_time, now),
                            !.genOk = genOk, !.sendOk = sendOk,
                            !.store = jobs]
    /\ UNCHANGED snap
    /\ UNCHANGED <<pool, now, mongodb_client, jobstore, persisted, jobs, adds>>

(***************************************************************************)
(* A second passes once the scheduler has processed what is due and the    *)
(* pool has taken what was submitted: the scheduler thread wakes at the    *)
(* next run time and the pool has idle workers.                            *)
(***************************************************************************)
Tick ==
    /\ now < MaxTime
    /\ DueJobs(jobs, now) = {}
    /\ queue = {}
    /\ ~(pool.waiting > 0 /\ FreeWorker(pool.running))
    /\ now' = now + 1
    /\ last' = Step
    /\ UNCHANGED snap
    /\ UNCHANGED <<pool, mongodb_client, jobstore, persisted, jobs, adds, queue,
                   missed, dispatched, campaigns, email_logs>>

(***************************************************************************)
(* The state after WorkflowService.__init__: the scheduler is running on   *)
(* the MongoDB job store, which may hold the jobs an earlier process left, *)
(* or on the memory job store, which is empty.                             *)
(***************************************************************************)
PersistedJobs ==
    { NewJob(JobId(Launch, "invite"), -2, <<Launch, "invite", <<>>>>, 0),
      NewJob(JobId(Launch, "reminder"), -1, <<Launch, "reminder", <<>>>>, 0) }

Init ==
    /\ now = 0
    /\ mongodb_client \in {"None", "client"}
    /\ jobstore \in (IF mongodb_client = "None" THEN {"memory"}
                      ELSE {"mongodb", "memory"})
    /\ jobs \in (IF jobstore = "mongodb" THEN {{}, PersistedJobs} ELSE {{}})
    /\ persisted = jobs
    /\ adds = <<>>
    /\ queue = {}
    /\ missed = {}
    /\ dispatched = <<>>
    /\ campaigns = {}
    /\ email_logs = <<>>
    /\ last = [n |-> 0, op |-> "init", c |-> Launch, plan |-> NoPlan, ret |-> TRUE,
               pre |-> {}, fail |-> "none", job |-> None, immediate |-> FALSE,
               genOk |-> AllOk, sendOk |-> AllOk,
     base |-> 0, resp |-> None, store |-> {}]
    /\ snap = None
    /\ pool = IdlePool

Schedule ==
    \E c \in CampaignNames, r \in Requests, failStage \in FailStages \cup {"none"} :
        schedule_campaign(c, r.plan, r.targets, r.segs, failStage)

Pause == \E c \in CampaignNames : pause_campaign(c)

Resume == \E c \in CampaignNames : resume_campaign(c)

ProcessJobs == process_jobs

Outcomes(i) ==
    IF Raises(get_collection(mongodb_client, <<"campaigns">>))
    THEN { AllOk }
    ELSE [Emails -> BOOLEAN]

RunJob ==
    \E i \in queue :
        \E genOk \in Outcomes(i), sendOk \in Outcomes(i) : run_job(i, genOk, sendOk)

Next == Schedule \/ Pause \/ Resume \/ ProcessJobs \/ RunJob \/ Tick

Spec == Init /\ [][Next]_vars

(***************************************************************************)
(* The worker pool under a burst: one pass of _process_jobs finds n jobs   *)
(* due and submits a run of each; a free worker takes the run at the head  *)
(* of the work queue and run_job skips it if it is too late by then; a     *)
(* callback returns after any time.                                        *)
(***************************************************************************)
submit_jobs(n) ==
    /\ pool.submitted = 0
    /\ pool' = [pool EXCEPT !.submitted = n, !.waiting = n, !.run_time = now]
    /\ last' = Step
    /\ UNCHANGED snap
    /\ UNCHANGED <<now, mongodb_client, jobstore, persisted, jobs, adds, queue,
                   missed, dispatched, campaigns, email_logs>>

worker_take ==
    /\ pool.waiting > 0
    /\ FreeWorker(pool.running)
    /\ pool' = IF Misfired(pool.run_time, now)
               THEN [pool EXCEPT !.waiting = @ - 1, !.missed = @ + 1]
               ELSE [pool EXCEPT !.waiting = @ - 1, !.running = @ + 1,
                                 !.dispatched = @ + 1]
    /\ last' = Step
    /\ UNCHANGED snap
    /\ UNCHANGED <<now, mongodb_client, jobstore, persisted, jobs, adds, queue,
                   missed, dispatched, campaigns, email_logs>>

worker_done ==
    /\ pool.running > 0
    /\ pool' = [pool EXCEPT !.running = @ - 1, !.finished = @ + 1]
    /\ last' = Step
    /\ UNCHANGED snap
    /\ UNCHANGED <<now, mongodb_client, jobstore, persisted, jobs, adds, queue,
                   missed, dispatched, campaigns, email_logs>>

InitPool ==
    /\ Init
    /\ mongodb_client = "client"
    /\ jobstore = "memory"

SubmitJobs == \E n \in 1..MaxBurst : submit_jobs(n)

WorkerTake == worker_take

WorkerDone == worker_done

NextPool == SubmitJobs \/ WorkerTake \/ WorkerDone \/ Tick

SpecPool == InitPool /\ [][NextPool]_vars

(***************************************************************************)
(* The read side: get_campaign_status and get_dashboard_metrics.  A rate   *)
(* is the pair <<numerator, denominator>> of the division the code makes;  *)
(* 0.0 is <<0, 1>>.  A log row without the opened field reads as not       *)
(* opened (log.get('opened', False)).                                      *)
(***************************************************************************)
Rate(n, d) == <<n, d>>
ZeroRate == Rate(0, 1)
RateEq(a, b) == a[1] * b[2] = b[1] * a[2]

Opened(log) == IF "opened" \in DOMAIN log THEN log.opened ELSE FALSE

LogsWhere(logs, c, status) ==
    { k \in 1..Len(logs) :
          /\ c # None => logs[k].campaign_name = c[1]
          /\ status # None => logs[k].status = status[1] }

OpenedIn(logs, ks) == { k \in ks : Opened(logs[k]) }

Earliest(times) ==
    IF times = {} THEN None
    ELSE Some(CHOOSE t \in times : \A u \in times : t <= u)

get_campaign_status(c) ==
    IF Raises(get_collection(mongodb_client, <<"campaigns">>)) THEN None
    ELSE IF ~(\E d \in campaigns : d.name = c) THEN None
    ELSE IF Raises(get_collection(mongodb_client, <<"email_logs">>)) THEN None
    ELSE LET campaign == CHOOSE d \in campaigns : d.name = c
             own == LogsWhere(email_logs, Some(c), None)
             total_sent == Cardinality(LogsWhere(email_logs, Some(c), Some("sent")))
             opened_count == Cardinality(OpenedIn(email_logs, own))
             target == campaign.targets.total_emails_sent
         IN Some([status |-> campaign.status,
                  total_emails_sent |-> total_sent,
                  open_rate |-> IF total_sent > 0
                                THEN Rate(opened_count, total_sent) ELSE ZeroRate,
                  progress_percentage |-> IF target > 0
                                          THEN Rate(total_sent * 100, target)
                                          ELSE ZeroRate,
                  next_scheduled_action |->
                      Earliest({ j.next_run_time[1] :
                                 j \in { x \in jobs :
                                            /\ startswith(x.id, JobPrefix(c))
                                            /\ x.next_run_time # None } })])

get_dashboard_metrics ==
    IF Raises(get_collection(mongodb_client, <<"campaigns">>))
    THEN [total_campaigns |-> 0, total_emails_sent |-> 0,
          average_open_rate |-> ZeroRate]
    ELSE LET sent_logs == LogsWhere(email_logs, None, Some("sent"))
             total_emails_sent == Cardinality(sent_logs)
             opened_count == Cardinality(OpenedIn(email_logs, sent_logs))
         IN [total_campaigns |-> Cardinality(campaigns),
             total_emails_sent |-> total_emails_sent,
             average_open_rate |-> IF total_emails_sent > 0
                                   THEN Rate(opened_count, total_emails_sent)
                                   ELSE ZeroRate]

(***************************************************************************)
(* update_campaign_targets.                                                *)
(***************************************************************************)
TargetsEffect(c, targets) ==
    IF Raises(get_collection(mongodb_client, <<"campaigns">>))
    THEN [campaigns |-> campaigns, ret |-> FALSE]
    ELSE [campaigns |-> { IF d.name = c THEN [d EXCEPT !.targets = targets]
                          ELSE d : d \in campaigns },
          ret |-> \E d \in campaigns : d.name = c]

update_campaign_targets(c, targets) ==
    /\ last.n < MaxCalls
    /\ LET r == TargetsEffect(c, targets)
       IN /\ campaigns' = r.campaigns
          /\ last' = Call("set_targets", c, NoPlan, r.ret, "none")
    /\ UNCHANGED snap
    /\ UNCHANGED <<pool, now, mongodb_client, jobstore, persisted, jobs, adds, queue,
                   missed, dispatched, email_logs>>

(***************************************************************************)
(* The dispatch callback invoked for (campaign, stage, segments), with the *)
(* outcomes of content generation (genOk) and of the transport (sendOk)    *)
(* per contact.                                                            *)
(***************************************************************************)
dispatch(c, stage, segs, genOk, sendOk) ==
    /\ last.n < MaxCalls
    /\ LET r == DispatchEffect(c, stage, segs, genOk, sendOk)
       IN /\ campaigns' = r.campaigns
          /\ email_logs' = r.email_logs
    /\ last' = [Call("dispatch", c, NoPlan, TRUE, "none")
                    EXCEPT !.genOk = genOk, !.sendOk = sendOk,
                           !.job = Some([id |-> JobId(c, stage), serial |-> 0,
                                         run_time |-> now,
                                         args |-> <<c, stage, segs>>])]
    /\ UNCHANGED snap
    /\ UNCHANGED <<pool, now, mongodb_client, jobstore, persisted, jobs, adds, queue,
                   missed, dispatched>>

(***************************************************************************)
(* The service on collections that already hold documents: the registry    *)
(* and the email log are durable and outlive the process, so a service     *)
(* may start on campaigns and log rows (with the opened flag the status    *)
(* and metrics queries read) that are already there.                       *)
(***************************************************************************)
Record(name, status, plan, targets) ==
    [name |-> name, status |-> status, workflow_plan |-> plan,
     targets |-> targets]

Registries ==
    { {},
      { Record(Launch, "scheduled", Plan(Some(1), None, None, None), Targets(0)) },
      { Record(Launch, "active", Plan(Some(1), None, None, None), Targets(4)),
        Record(LaunchX, "paused", Plan(Some(2), None, None, None), Targets(2)) } }

StoredLog(c, stage, email, status, opened) ==
    [campaign_name |-> c, email |-> email, email_type |-> stage,
     status |-> status, opened |-> opened]

LogsA ==
    << StoredLog(Launch, "invite", "a@x", "sent", TRUE),
       StoredLog(Launch, "invite", "b@x", "sent", FALSE),
       StoredLog(Launch, "invite", "c@x", "sent", FALSE),
       StoredLog(Launch, "reminder", "a@x", "sent", FALSE) >>

LogsAB ==
    LogsA \o << StoredLog(LaunchX, "invite", "a@x", "sent", TRUE),
                StoredLog(LaunchX, "invite", "b@x", "failed", FALSE) >>

StoredLogs == { <<>>, LogsA, LogsAB }

EnvOutcomes ==
    { AllOk, [AllOk EXCEPT !["b@x"] = FALSE], [e \in Emails |-> FALSE] }

InitStores ==
    /\ now = 0
    /\ mongodb_client \in {"None", "client"}
    /\ jobstore \in (IF mongodb_client = "None" THEN {"memory"}
                      ELSE {"mongodb", "memory"})
    /\ jobs = {}
    /\ persisted = jobs
    /\ adds = <<>>
    /\ queue = {}
    /\ missed = {}
    /\ dispatched = <<>>
    /\ campaigns \in Registries
    /\ email_logs \in StoredLogs
    /\ last = [n |-> 0, op |-> "init", c |-> Launch, plan |-> NoPlan, ret |-> TRUE,
               pre |-> {}, fail |-> "none", job |-> None, immediate |-> FALSE,
               genOk |-> AllOk, sendOk |-> AllOk,
     base |-> Len(email_logs), resp |-> None, store |-> {}]
    /\ snap = None
    /\ pool = IdlePool

(***************************************************************************)
(* The queries as calls: the response is recorded in last.resp.            *)
(***************************************************************************)
campaign_status(c) ==
    /\ last.n < MaxCalls
    /\ last' = [Call("status", c, NoPlan, TRUE, "none")
                    EXCEPT !.resp = get_campaign_status(c)]
    /\ UNCHANGED snap
    /\ UNCHANGED <<pool, now, mongodb_client, jobstore, persisted, jobs, adds, queue,
                   missed, dispatched, campaigns, email_logs>>

dashboard_metrics ==
    /\ last.n < MaxCalls
    /\ last' = [Call("metrics", Launch, NoPlan, TRUE, "none")
                    EXCEPT !.resp = Some(get_dashboard_metrics)]
    /\ UNCHANGED snap
    /\ UNCHANGED <<pool, now, mongodb_client, jobstore, persisted, jobs, adds, queue,
                   missed, dispatched, campaigns, email_logs>>

Status == \E c \in CampaignNames : campaign_status(c)

Metrics == dashboard_metrics

SetTargets ==
    \E c \in CampaignNames, r \in Requests : update_campaign_targets(c, r.targets)

Dispatch ==
    \E c \in CampaignNames, stage \in {"invite", "thank_you"},
       segs \in {<<>>, <<"s1", "s2">>}, genOk \in EnvOutcomes, sendOk \in EnvOutcomes :
        dispatch(c, stage, segs, genOk, sendOk)

NextStores ==
    Schedule \/ Pause \/ Resume \/ SetTargets \/ Dispatch \/ Status \/ Metrics

SpecStores == InitStores /\ [][NextStores]_vars

(***************************************************************************)
(* The service started on durable stores that an earlier process left      *)
(* populated: the campaigns collection holds records and the MongoDB job   *)
(* store may hold jobs that are not yet due.                               *)
(***************************************************************************)
PendingJobs ==
    { NewJob(JobId(Launch, "invite"), 1, <<Launch, "invite", <<>>>>, 0),
      NewJob(JobId(Launch, "reminder"), 2, <<Launch, "reminder", <<>>>>, 0) }

InitDurable ==
    /\ now = 0
    /\ mongodb_client = "client"
    /\ jobstore = "mongodb"
    /\ jobs \in {{}, PendingJobs}
    /\ persisted = jobs
    /\ adds = <<>>
    /\ queue = {}
    /\ missed = {}
    /\ dispatched = <<>>
    /\ campaigns \in Registries
    /\ email_logs = <<>>
    /\ last = [n |-> 0, op |-> "init", c |-> Launch, plan |-> NoPlan,
               ret |-> TRUE, pre |-> {}, fail |-> "none", job |-> None,
               immediate |-> FALSE, genOk |-> AllOk, sendOk |-> AllOk,
               base |-> 0, resp |-> None, store |-> {}]
    /\ snap = None
    /\ pool = IdlePool

SpecDurable == InitDurable /\ [][Next]_vars

(***************************************************************************)
(* The recipients _send_campaign_emails resolves (lines 314-331) from a    *)
(* contact directory coll: nothing when the registry lookup raises or the  *)
(* campaign is not found.                                                  *)
(***************************************************************************)
Directory(n) == [k \in 1..n |-> [email |-> <<"u", k>>, tags |-> {}]]

DirectorySizes == {0, 3, 101}

RECURSIVE ByTags(_, _, _)
ByTags(coll, segs, i) ==
    IF i > Len(segs) THEN <<>>
    ELSE SelectSeq(coll, LAMBDA k : segs[i] \in k.tags) \o ByTags(coll, segs, i + 1)

ResolveContacts(c, segs, coll) ==
    IF Raises(get_collection(mongodb_client, <<"campaigns">>)) THEN <<>>
    ELSE IF ~(\E d \in campaigns : d.name = c) THEN <<>>
    ELSE IF Len(segs) > 0 THEN ByTags(coll, segs, 1)
    ELSE find_limit(coll, ContactLimit)

(***************************************************************************)
(* Properties.                                                             *)
(***************************************************************************)
JobsWithId(id) == { j \in jobs : j.id = id }

(* The client was constructed: the store is not known to be unavailable. *)
Connected == mongodb_client # "None"

PrefixJobs(js, c) == { j \in js : startswith(j.id, JobPrefix(c)) }

StageJobAt(c, s, t) ==
    /\ Cardinality(JobsWithId(JobId(c, s))) = 1
    /\ \A j \in JobsWithId(JobId(c, s)) :
           /\ j.run_date = t
           /\ j.next_run_time = Some(t)
           /\ j.args[1] = c /\ j.args[2] = s

(* C1: after schedule_campaign(c, plan, segments) returns success for a    *)
(* campaign c that had no stage job, with a plan that has a non-null       *)
(* stage, the job store holds for every non-null stage exactly one job,    *)
(* with id "<c>_<stage>" and the plan's timestamp as its trigger time, and *)
(* no job for a null stage.                                                *)
C1_ScheduleCreatesStageJobs ==
    (last.op = "schedule" /\ last.ret /\ last.pre = {} /\ last.plan # NoPlan)
        => \A s \in Stages :
               IF last.plan[s] # None
               THEN StageJobAt(last.c, s, last.plan[s][1])
               ELSE JobsWithId(JobId(last.c, s)) = {}

C1_Witness ==
    /\ last.op = "schedule" /\ last.ret /\ last.pre = {}
    /\ last.plan["invite"] # None /\ last.plan["reminder"] = None
    /\ Cardinality(OwnJobs(jobs, last.c)) = 3
    /\ now > 0

(* C2: the job store never holds two jobs for the same (campaign, stage),  *)
(* and after a successful schedule_campaign(c, plan, ...) the one job of   *)
(* every stage the plan gives a time is the newly scheduled one, also when *)
(* c had a job for that stage before the call (it is replaced).            *)
C2_RescheduleReplaces ==
    /\ \A c \in CampaignNames, s \in Stages :
           Cardinality({ j \in jobs : j.args[1] = c /\ j.args[2] = s }) <= 1
    /\ (last.op = "schedule" /\ last.ret)
           => \A s \in Stages :
                  last.plan[s] # None
                      => \A j \in jobs :
                             (j.args[1] = last.c /\ j.args[2] = s)
                                 => /\ j.id = JobId(last.c, s)
                                    /\ j.run_date = last.plan[s][1]
                                    /\ j.serial = Count(adds, j.id)

C2_Witness ==
    /\ last.op = "schedule" /\ last.ret
    /\ \E p \in last.pre :
           /\ last.plan[p[1]] # None
           /\ last.plan[p[1]][1] # p[2]
           /\ StageJobAt(last.c, p[1], last.plan[p[1]][1])

C4_PauseResumeRestores ==
    (last.op = "resume" /\ last.immediate /\ snap # None
         /\ PrefixJobs(snap[1].jobs, last.c) # {})
        => /\ PrefixJobs(jobs, last.c) = PrefixJobs(snap[1].jobs, last.c)
           /\ \A j \in PrefixJobs(jobs, last.c) :
                  j.next_run_time = Some(j.run_date)

C4_Witness ==
    /\ last.op = "resume" /\ last.immediate /\ snap # None
    /\ snap[1].c = last.c /\ snap[1].resumed
    /\ Cardinality(PrefixJobs(snap[1].jobs, last.c)) >= 2
    /\ PrefixJobs(jobs, last.c) = PrefixJobs(snap[1].jobs, last.c)

(* C5: a one-shot job is dispatched at most once, and once it has fired it *)
(* is gone from the job store: it is neither kept nor re-armed, and it is  *)
(* not submitted to the pool again.                                        *)
C5_OneShotFiresOnce ==
    /\ \A k \in DOMAIN dispatched :
           /\ dispatched[k] = 1
           /\ ~(\E j \in jobs : Key(j) = k)
           /\ ~(\E i \in queue : Key(i) = k)
    /\ \A i \in queue : ~(\E j \in jobs : Key(j) = Key(i))

C5_Witness ==
    /\ Cardinality(DOMAIN dispatched) >= 2
    /\ \E k \in DOMAIN dispatched : k[2] > 0
    /\ now > 1

Outcome(k) ==
    IF k \in DOMAIN dispatched THEN "dispatched"
    ELSE IF \E m \in missed : m.job = k THEN "missed"
    ELSE "none"

Taken(p) == p \notin jobs /\ Instance(p) \notin queue

C8_PauseSucceeds ==
    (Connected /\ last.op = "pause")
        => /\ last.ret
                  => /\ \A d \in campaigns : d.name = last.c => d.status = "paused"
                     /\ \A j \in PrefixJobs(jobs, last.c) : j.next_run_time = None
           /\ (snap # None /\ PrefixJobs(snap[1].jobs, last.c) = {})
                  => last.ret /\ jobs = snap[1].jobs

Recipients(segs) ==
    IF Len(segs) > 0
    THEN { ContactsDb[k].email : k \in { n \in 1..Len(ContactsDb) :
               \E i \in 1..Len(segs) : segs[i] \in ContactsDb[n].tags } }
    ELSE Emails

Rows(c, stage, e) ==
    { k \in 1..Len(email_logs) :
          /\ email_logs[k].campaign_name = c
          /\ email_logs[k].email_type = stage
          /\ email_logs[k].email = e }

(* C10: with the store connected,                                          *)
(* after a stage of campaign c has fired, the email log holds exactly      *)
(* one row per recipient of the stage (the union of the contacts of the    *)
(* segments, without duplicates; every contact when there is no segment),  *)
(* and the jobs of c that are still in the store stay scheduled.           *)
C10_OneRowPerRecipient ==
    (Connected /\ last.op = "run" /\ last.ret /\ last.job # None)
        => LET i == last.job[1]
           IN /\ \A e \in Recipients(i.args[3]) :
                     Cardinality(Rows(i.args[1], i.args[2], e)) = 1
              /\ \A j \in OwnJobs(jobs, i.args[1]) :
                     j.next_run_time = Some(j.run_date)

Fired == last.op \in {"run", "dispatch"} /\ last.ret /\ last.job # None

NewRows(c, stage, e) ==
    { k \in (last.base + 1)..Len(email_logs) :
          /\ email_logs[k].campaign_name = c
          /\ email_logs[k].email_type = stage
          /\ email_logs[k].email = e }

Handed(segs, genOk) == { e \in Recipients(segs) : genOk[e] }

(* C11: with the store connected,                                          *)
(* after the dispatch callback has run for a batch, every recipient        *)
(* handed to the transport has exactly one new EmailLog row, with status   *)
(* sent if the transport delivered and failed otherwise: a transport       *)
(* failure for one recipient leaves the rows of the others in place.       *)
C11_OneRowPerTransportOutcome ==
    (Connected /\ Fired)
        => LET i == last.job[1]
           IN \A e \in Handed(i.args[3], last.genOk) :
                  /\ Cardinality(NewRows(i.args[1], i.args[2], e)) = 1
                  /\ \A k \in NewRows(i.args[1], i.args[2], e) :
                         email_logs[k].status =
                             IF last.sendOk[e] THEN "sent" ELSE "failed"

ExpectedStatus(op) ==
    CASE op = "schedule" -> "scheduled"
      [] op = "pause" -> "paused"
      [] op = "resume" -> "active"
      [] OTHER -> "none"

(* C12: pause_campaign(c) and resume_campaign(c) return False whenever the *)
(* registry lookup or write fails, and return True only if the record of   *)
(* c then carries the status the call sets (paused, active): success is    *)
(* never reported for a status write that did not happen.                  *)
C12_PauseResumeFailureIsFalse ==
    last.op \in {"pause", "resume"}
        => /\ last.ret
                  => \E d \in campaigns :
                         d.name = last.c /\ d.status = ExpectedStatus(last.op)
           /\ (mongodb_client = "None" \/ campaigns = {}) => ~last.ret

C12_Witness ==
    /\ last.op = "pause" /\ ~last.ret
    /\ mongodb_client = "client"
    /\ \E d \in campaigns : d.name = last.c /\ d.status = "active"
    /\ PrefixJobs(jobs, last.c) # {}

(* C13: the registry holds at most one record per campaign name, and after *)
(* a successful schedule_campaign(c, plan, ...) with the store connected   *)
(* the one record of c is the                                              *)
(* newly written one (status scheduled, the new plan), also when c had a   *)
(* record before.                                                          *)
C13_OneRecordPerName ==
    /\ \A c \in CampaignNames :
           Cardinality({ d \in campaigns : d.name = c }) <= 1
    /\ (Connected /\ last.op = "schedule" /\ last.ret)
           => /\ Cardinality({ d \in campaigns : d.name = last.c }) = 1
              /\ \A d \in campaigns :
                     d.name = last.c
                         => d.status = "scheduled" /\ d.workflow_plan = last.plan

(* C14: with the store connected,                                          *)
(* when a job fires without audience segments, the dispatch resolves       *)
(* the recipients to the full contact set: for a campaign of the registry  *)
(* and a contact directory of any size, every contact is in the batch.     *)
C14_AllContactsWithoutSegments ==
    (Connected /\ Fired /\ last.job[1].args[3] = <<>>
         /\ \E d \in campaigns : d.name = last.c)
        => \A n \in DirectorySizes :
               ResolveContacts(last.c, <<>>, Directory(n)) = Directory(n)

(* C15: with the store connected,                                          *)
(* when content generation fails for a recipient during a dispatch,        *)
(* that recipient gets no EmailLog row (nothing is sent to them), and      *)
(* every other recipient, whose content generation succeeds, gets one.     *)
C15_GenerationFailureSkipsRecipient ==
    (Connected /\ Fired /\ \E e \in Emails : ~last.genOk[e])
        => LET i == last.job[1]
           IN \A e \in Recipients(i.args[3]) :
                  IF last.genOk[e]
                  THEN NewRows(i.args[1], i.args[2], e) # {}
                  ELSE NewRows(i.args[1], i.args[2], e) = {}

StatusOf(coll) == { <<d.name, d.status>> : d \in coll }

(* C16: a campaign's status changes only in a step that is a               *)
(* schedule_campaign, pause_campaign or resume_campaign call for that      *)
(* campaign, and then to scheduled, paused or active respectively; the     *)
(* dispatch callback, and any other step, leaves every status as it was.   *)
C16_StatusOnlyByExplicitCalls ==
    [][\A p \in StatusOf(campaigns') \ StatusOf(campaigns) :
           /\ last'.op \in {"schedule", "pause", "resume"}
           /\ p[1] = last'.c
           /\ p[2] = ExpectedStatus(last'.op)]_vars

C16_Witness ==
    /\ last.op = "dispatch" /\ last.n > 1
    /\ mongodb_client = "client"
    /\ \E d \in campaigns : d.name = last.c /\ d.status = "active"
    /\ \E d \in campaigns : d.name # last.c /\ d.status = "paused"

SentOf(c) == Cardinality(LogsWhere(email_logs, Some(c), Some("sent")))

OpenedOf(c) ==
    Cardinality(OpenedIn(email_logs, LogsWhere(email_logs, Some(c), Some("sent"))))

SendingCampaigns == { c \in CampaignNames : SentOf(c) > 0 }

RECURSIVE SumRates(_)
SumRates(S) ==
    IF S = {} THEN ZeroRate
    ELSE LET c == CHOOSE x \in S : TRUE
             r == SumRates(S \ {c})
         IN Rate(OpenedOf(c) * r[2] + r[1] * SentOf(c), SentOf(c) * r[2])

MeanOpenRate ==
    IF SendingCampaigns = {} THEN ZeroRate
    ELSE LET t == SumRates(SendingCampaigns)
         IN Rate(t[1], t[2] * Cardinality(SendingCampaigns))

(* C17: with the store connected, get_dashboard_metrics reports as         *)
(* average_open_rate the mean of the per-campaign open rates               *)
(* (opened / sent) over exactly the campaigns that have sent rows;         *)
(* campaigns without sends do not count as 0%.                             *)
C17_MeanOverSendingCampaigns ==
    (Connected /\ last.op = "metrics")
        => RateEq(last.resp[1].average_open_rate, MeanOpenRate)

(* C18: with the store connected, get_campaign_status(c) of a campaign of  *)
(* the registry returns a response, with open_rate = opened / sent (0.0    *)
(* when nothing was sent) and progress_percentage = sent / target * 100    *)
(* (0.0 when the target is 0): it never fails on a division.               *)
C18_StatusRatesWithoutDivisionError ==
    (Connected /\ last.op = "status")
        => \A d \in { x \in campaigns : x.name = last.c } :
               LET st == last.resp
                   sent == SentOf(d.name)
                   opened == Cardinality(OpenedIn(email_logs,
                                 LogsWhere(email_logs, Some(d.name), None)))
                   target == d.targets.total_emails_sent
               IN /\ st # None
                  /\ RateEq(st[1].open_rate,
                            IF sent = 0 THEN ZeroRate ELSE Rate(opened, sent))
                  /\ RateEq(st[1].progress_percentage,
                            IF target = 0 THEN ZeroRate
                            ELSE Rate(sent * 100, target))

(* C19: with the store connected, get_campaign_status(c) of a campaign of  *)
(* the registry reports as next_scheduled_action the earliest trigger      *)
(* time among the stage jobs of c that are in the store and not paused,    *)
(* null when there is none; jobs of other campaigns do not count.          *)
C19_NextActionOfOwnJobs ==
    (Connected /\ last.op = "status")
        => \A d \in { x \in campaigns : x.name = last.c } :
               LET st == last.resp
               IN /\ st # None
                  /\ st[1].next_scheduled_action =
                         Earliest({ j.next_run_time[1] :
                                    j \in { x \in OwnJobs(jobs, d.name) :
                                              x.next_run_time # None } })

(* C20: the engine behaves the same on the durable job store as on the     *)
(* volatile one.  On the volatile store every schedule_campaign call       *)
(* returns success and leaves one job per non-null stage at the plan's     *)
(* time; so it does on whichever store the service runs.                   *)
C20_SameOnBothJobStores ==
    last.op = "schedule"
        => /\ last.ret
           /\ \A s \in Stages :
                  last.plan[s] # None => StageJobAt(last.c, s, last.plan[s][1])

(***************************************************************************)
(* C23 (as amended): the callbacks executing at the same time never        *)
(* exceed max_workers; every submitted run is waiting, running, finished   *)
(* or skipped as missed; a run is skipped only when it is taken from the   *)
(* work queue more than misfire_grace_time after its run time, and every   *)
(* other run taken had its callback invoked.                               *)
(***************************************************************************)
C23_PoolCapAndMisfire ==
    /\ pool.running <= max_workers
    /\ pool.waiting + pool.running + pool.finished + pool.missed
           = pool.submitted
    /\ pool.dispatched = pool.running + pool.finished
    /\ pool.missed > 0 => now - pool.run_time > MisfireGraceTime

C23_Witness ==
    /\ pool.submitted > max_workers
    /\ pool.running = max_workers
    /\ pool.waiting > 0

(* C23 as stated: the cap holds and no submitted run is dropped. *)
C23_NoneDropped ==
    /\ pool.running <= max_workers
    /\ pool.missed = 0

C22_DispatchInTimeOrder ==
    (Connected /\ last.op = "run" /\ last.ret /\ last.n = 1)
        => \A i \in queue :
               (i.args[1] = last.c /\ i.serial > 0
                    /\ now - i.run_time <= MisfireGraceTime)
                   => ~(i.run_time < last.job[1].run_time)

(***************************************************************************)
(* C24: a run whose callback is invoked and fails (no row is logged)       *)
(* leaves the job store as it found it: every job, of the same campaign    *)
(* and of any other, is still there with its trigger time; only the run    *)
(* itself has left the pool.                                               *)
(***************************************************************************)
C24_FailedDispatchKeepsOtherJobs ==
    (last.op = "run" /\ last.ret /\ Len(email_logs) = last.base)
        => /\ jobs = last.store
           /\ last.job[1] \notin queue

C24_Witness ==
    /\ last.op = "run" /\ last.ret /\ Len(email_logs) = last.base
    /\ \E j \in jobs : j.args[1] = last.c /\ j.next_run_time # None
    /\ \E j \in jobs : j.args[1] # last.c /\ j.next_run_time # None

(***************************************************************************)
(* C25: after a schedule_campaign call for c that returned success, the    *)
(* pending jobs of c are those of the non-null stages of the plan of that  *)
(* call: every such stage has its job at the plan's time, and a stage that *)
(* the plan leaves null has no job that an earlier schedule_campaign call  *)
(* created (on the memory job store, where every add_job succeeds and so   *)
(* every schedule_campaign call does).                                     *)
(***************************************************************************)
C25_LastPlanWins ==
    (Connected /\ jobstore = "memory" /\ last.op = "schedule" /\ last.ret)
        => \A s \in Stages :
               IF last.plan[s] = None
               THEN \A j \in JobsWithId(JobId(last.c, s)) : j.serial = 0
               ELSE StageJobAt(last.c, s, last.plan[s][1])

(***************************************************************************)
(* C29: a job that a schedule_campaign call created is in the job store    *)
(* only while the registry holds a record of its campaign.                 *)
(***************************************************************************)
C29_JobImpliesCampaignRecord ==
    \A j \in jobs :
        (Connected /\ j.serial > 0)
            => \E d \in campaigns : d.name = j.args[1]

C26_OnlyOwnJobs ==
    last.op \in {"pause", "resume", "status"}
        => \A d \in CampaignNames \ {last.c} :
               OwnJobs(jobs, d) = OwnJobs(last.store, d)

C26_Witness ==
    /\ Connected
    /\ last.op = "pause" /\ last.c = Launch
    /\ \E j \in OwnJobs(jobs, LaunchX) :
           startswith(j.id, JobPrefix(Launch)) /\ j.next_run_time # None

(***************************************************************************)
(* C30: a pause_campaign call that returns failure leaves the registry,    *)
(* with the status of the campaign, and every job, with its paused flag,   *)
(* as the call found them.                                                 *)
(***************************************************************************)
C30_FailedPauseChangesNothing ==
    (last.op = "pause" /\ ~last.ret)
        => /\ jobs = snap[1].jobs
           /\ campaigns = snap[1].campaigns

C30_Witness ==
    /\ Connected
    /\ last.op = "pause" /\ ~last.ret
    /\ \E j \in OwnJobs(jobs, last.c) : j.next_run_time # None
    /\ \E d \in campaigns : d.name = last.c /\ d.status # "paused"

====
